---- MODULE Spec2Model ----
(***************************************************************************)
(* Host side of the SEGGER RTT protocol as implemented by probe-rs-rtt.    *)
(*                                                                         *)
(* Part 1 (Spec): one channel's ring buffer in target memory, the host's   *)
(* RttChannel::read / RttChannel::write calls split at their memory        *)
(* transfers (pointer fetch, each data chunk, pointer write-back), and a   *)
(* target that produces into an up channel or consumes from a down         *)
(* channel concurrently.                                                   *)
(*                                                                         *)
(* Part 2 (SpecAttach): Rtt::attach, the scan of the RAM regions of the    *)
(* memory map for control blocks and its result policy. A region's         *)
(* snapshot is described by the offsets at which the 16-byte ID matches    *)
(* and the two channel counts stored behind each match.                    *)
(*                                                                         *)
(* Part 3 (SpecChannels, SpecString, SpecRegistry, SpecMode): the loops    *)
(* of Rtt::from over the channel records of an accepted control block with *)
(* RttChannel::from; read_c_string on any pointer; the calls on a Channels *)
(* registry; and RttChannel::mode with the ring calls on channels of any   *)
(* flags.                                                                  *)
(*                                                                         *)
(* Part 4 (SpecHost): rtthost's loop of run with a down channel, fed by    *)
(* the thread of stdin_channel through an mpsc channel, calling Rtt::write *)
(* step by step while the target consumes from the ring.                   *)
(*                                                                         *)
(* Data bytes are tagged with their position in the stream (the k-th byte  *)
(* put into the ring carries the value k), so that a dropped, duplicated   *)
(* or reordered byte is visible in the stream taken out of the ring.       *)
(***************************************************************************)
EXTENDS Integers, Sequences, FiniteSets, TLC

\* Largest buffer_size of the channel (sizes 0..MaxSize are explored).
MaxSize == 4
\* Largest length of the caller's buffer handed to read or write.
MaxLen == 5
\* Largest number of bytes ever put into the ring in one behaviour.
MaxBytes == 6

\* Largest channel number of the channel whose ring is explored.
MaxNumber == 1

\* Largest number of regions in the memory map.
MaxRegions == 2
\* Largest number of ID matches in one region's snapshot.
MaxBlocks == 4

\* Offsets of fields of the channel descriptor in target memory.
O_WRITE == 12
O_READ == 16

\* Rtt::MIN_SIZE (= O_CHANNEL_ARRAYS) and RttChannel::SIZE, in bytes.
MIN_SIZE == 24
SIZE == 24
\* Variant: the cap on the candidates off by one.
MAX_INSTANCES_plus1 == 5 + 1

\* attach stops collecting once instances.len() > MAX_INSTANCES.
MAX_INSTANCES == 5

VARIABLES
    direction,  \* RttChannel.direction: "Up" or "Down"
    size,       \* RttChannel.size: the buffer_size decoded at attach
    mem,        \* target memory: the ring's backing store, offsets 0..size-1
    tWrite,     \* target memory: the live write offset at descriptor+12
    tRead,      \* target memory: the live read offset at descriptor+16
    tpc,        \* the target's position: "idle", "stored" or "loaded"
    h,          \* the host call in progress: its position and its locals
    xfers,      \* the memory transfers the host call has issued so far
    snap,       \* the ring's content when the host call fetched the offsets
    sent,       \* the stream put into the ring (published / accepted bytes)
    rcvd,       \* the stream taken out of the ring (returned / consumed bytes)
    apc,        \* attach: "scan" (in the region loop), "done" or "off"
    ri,         \* attach: the number of regions of the memory map visited
    region,     \* attach: the region visited last, with its snapshot
    broke,      \* attach: the region loop was left by `break 'out`
    instances,  \* attach: the candidates collected so far
    aresult,    \* attach: what the call returned
    build       \* attach: the build's usize and overflow checks: "64",
                \* "32-debug" or "32-release"; "any" until a size computation
                \* exceeds 32 bits, before which the builds do not differ
VARIABLES
    memory_map,     \* the target's memory map: a sequence of regions
    zeros,          \* target memory: the addresses that hold a zero byte
    cb,             \* Rtt::from: the control block, its address and snapshot
    ppc,            \* Rtt::from: "up", "down" (the two loops), "done", "off"
    pi,             \* Rtt::from: the loop variable i
    up_channels,    \* the table of up channels, by channel number
    down_channels,  \* the table of down channels, by channel number
    presult,        \* Rtt::from: what the call returned
    reads,          \* the memory reads issued for channel names
    sptr,           \* read_c_string: the pointer it was called with
    sres,           \* read_c_string: what the call returned
    reg             \* the last call on a table and what it returned
VARIABLES
    hpc,        \* rtthost's run: "recv", "write" (in its loop), "exit", "off"
    stdin_pc,   \* the stdin thread: "reading" or "ended"
    rx,         \* the mpsc channel of stdin_channel: the Vec<u8> in flight
    down_buf,   \* run's pending queue of bytes for the down channel
    typed       \* the number of bytes of the tagged stream read from stdin

ringVars ==
    <<direction, size, mem, tWrite, tRead, tpc, h, xfers, snap, sent, rcvd>>
avars == <<apc, ri, region, broke, instances, aresult, build>>
cvars == <<memory_map, zeros, cb, ppc, pi, up_channels, down_channels,
           presult, reads, sptr, sres, reg>>
hvars == <<hpc, stdin_pc, rx, down_buf, typed>>
vars == <<ringVars, avars, cvars, hvars>>

min(a, b) == IF a < b THEN a ELSE b

\* Bytes k+1 .. k+n of the tagged stream.
Stream(k, n) == [i \in 1..n |-> k + i]

IsPrefix(s, t) == /\ Len(s) <= Len(t)
                  /\ \A i \in 1..Len(s) : s[i] = t[i]

\* One byte of target memory at buffer_ptr + off; memory outside the ring is
\* other target memory, which holds 0 here.
MemAt(m, off) == IF off \in DOMAIN m THEN m[off] ELSE 0

\* core.read_8(buffer_ptr + off, buf[..count])
read_8(off, count) == [i \in 1..count |-> MemAt(mem, off + i - 1)]

\* core.write_8(buffer_ptr + off, bytes): the ring after the transfer.
write_8(off, bytes) ==
    [i \in DOMAIN mem |->
        IF i >= off /\ i < off + Len(bytes) THEN bytes[i - off + 1] ELSE mem[i]]

\* A record of one memory transfer through the probe.
Xfer(op, base, off, len, val) ==
    [op |-> op, base |-> base, off |-> off, len |-> len, val |-> val]

\* Variant: the bound test off by one (an offset equal to size is accepted).
validate_gt(value) == ~(value > size)

\* The closure `validate` of read_pointers: TRUE when the offset is accepted.
validate(value) == ~(value >= size)

\* RttChannel::read_pointers: both offsets in one 8-byte transfer.
read_pointers ==
    [ok    |-> validate(tWrite) /\ validate(tRead),
     write |-> tWrite,
     read  |-> tRead]

\* Variant: the unread amount without regard to the end of the buffer.
readable_nowrap(write, read) ==
    IF read > write THEN size - read + write ELSE write - read

\* Variant: the comparison off by one (an empty ring reads as a full one).
readable_ge(write, read) ==
    IF read >= write THEN size - read ELSE write - read

\* Variant: the write offset is not looked at (the ring reads as holding data
\* up to the end of the buffer).
readable_to_end(write, read) == size - read

\* Amount of contiguous data available for reading.
readable_contiguous(write, read) ==
    IF read > write THEN size - read ELSE write - read

\* Variant: the space up to the end of the buffer off by one (a chunk may end
\* one byte behind the buffer).
writable_past_end(write, read) ==
    IF read > write THEN read - write - 1 ELSE size - write + 1

\* Amount of contiguous space available for writing.
writable_contiguous(write, read) ==
    IF read > write THEN read - write - 1 ELSE size - write

\* Variant: the wrap test off by one (the offset may stay equal to size).
wrap_read_gt(read) == IF read > size THEN 0 ELSE read

\* read's wrap of the local read offset after a chunk.
wrap_read(read) == IF read >= size THEN 0 ELSE read

\* write's wrap of the local write offset after a chunk.
wrap_write(write) == IF write >= size THEN 0 ELSE write

\* Variant: the write-back lands on the other offset field.
write_back_swapped(off, value) ==
    /\ tWrite' = IF off = O_READ THEN value ELSE tWrite
    /\ tRead' = IF off = O_WRITE THEN value ELSE tRead

\* core.write_8(ptr + off, value.to_le_bytes()): the 4-byte offset field of
\* the descriptor at off takes the value, the other one keeps its own.
write_back(off, value) ==
    /\ tWrite' = IF off = O_WRITE THEN value ELSE tWrite
    /\ tRead' = IF off = O_READ THEN value ELSE tRead

\* No host call in progress. n is the length of the caller's buffer, buf what
\* is left of it, data the bytes copied out (read) or the whole input (write).
Idle == [pc |-> "idle", op |-> "none", n |-> 0, write |-> 0, read |-> 0,
         buf |-> <<>>, data |-> <<>>, total |-> 0, result |-> "none",
         channel |-> 0]

\* The number of the channel whose ring is explored: the one entry of the
\* Rtt's two tables.
ring_number == CHOOSE k \in DOMAIN up_channels \cup DOMAIN down_channels : TRUE

\* Rtt::read or Rtt::write found `channel` in its table and calls the
\* channel's read or write.
Called == [Idle EXCEPT !.channel = ring_number]

\* The offsets are the ones a well-behaved pair of producer and consumer leaves.
ValidOffsets == tWrite < size /\ tRead < size

\* Number of unread bytes in a ring with offsets w, r (both < size).
Unread(w, r) == IF w >= r THEN w - r ELSE size - r + w

----------------------------------------------------------------------------
\* Host: RttChannel::read

\* Entry of read: fetch and validate the offsets, return early when empty.
read_enter(n) ==
    /\ h.pc = "idle"
    /\ direction = "Up"
    /\ LET p == read_pointers IN
       /\ xfers' = <<Xfer("read_8", "ptr", O_WRITE, 8, <<p.write, p.read>>)>>
       /\ snap' = mem
       /\ h' = IF ~p.ok
                 THEN [Called EXCEPT !.pc = "done", !.op = "read", !.n = n,
                                   !.buf = Stream(0, n),
                                   !.result = "ControlBlockCorrupted"]
               ELSE IF readable_contiguous(p.write, p.read) = 0
                 THEN [Called EXCEPT !.pc = "done", !.op = "read", !.n = n,
                                   !.write = p.write, !.read = p.read,
                                   !.buf = Stream(0, n), !.result = "Ok"]
               ELSE [Called EXCEPT !.pc = "loop", !.op = "read", !.n = n,
                                 !.write = p.write, !.read = p.read,
                                 !.buf = Stream(0, n)]
    /\ UNCHANGED <<avars, cvars, hvars, direction, size, mem, tWrite, tRead, tpc, sent, rcvd>>

\* One iteration of read's loop: one data transfer out of the ring.
read_loop ==
    /\ h.pc = "loop" /\ h.op = "read"
    /\ Len(h.buf) > 0
    /\ LET count == min(readable_contiguous(h.write, h.read), Len(h.buf))
           bytes == read_8(h.read, count)
           read1 == h.read + count
       IN
       /\ count # 0
       /\ xfers' = Append(xfers,
                          Xfer("read_8", "buffer_ptr", h.read, count, bytes))
       /\ h' = [h EXCEPT !.data = h.data \o bytes,
                         !.total = h.total + count,
                         !.read = wrap_read(read1),
                         !.buf = SubSeq(h.buf, count + 1, Len(h.buf))]
    /\ UNCHANGED <<avars, cvars, hvars, direction, size, mem, tWrite, tRead, tpc, snap, sent, rcvd>>

\* Exit of read's loop: write the read offset back and return Ok(total).
read_exit ==
    /\ h.pc = "loop" /\ h.op = "read"
    /\ \/ Len(h.buf) = 0
       \/ min(readable_contiguous(h.write, h.read), Len(h.buf)) = 0
    /\ write_back(O_READ, h.read)
    /\ xfers' = Append(xfers, Xfer("write_8", "ptr", O_READ, 4, h.read))
    /\ h' = [h EXCEPT !.pc = "done", !.result = "Ok"]
    /\ rcvd' = rcvd \o h.data
    /\ UNCHANGED <<avars, cvars, hvars, direction, size, mem, tpc, snap, sent>>

----------------------------------------------------------------------------
\* Host: RttChannel::write

\* Entry of write with the caller's bytes `input`: fetch and validate the
\* offsets, return early when full.
write_begin(input) ==
    /\ h.pc = "idle"
    /\ direction = "Down"
    /\ LET p == read_pointers
           n == Len(input)
       IN
       /\ xfers' = <<Xfer("read_8", "ptr", O_WRITE, 8, <<p.write, p.read>>)>>
       /\ snap' = mem
       /\ h' = IF ~p.ok
                 THEN [Called EXCEPT !.pc = "done", !.op = "write", !.n = n,
                                   !.buf = input, !.data = input,
                                   !.result = "ControlBlockCorrupted"]
               ELSE IF writable_contiguous(p.write, p.read) = 0
                 THEN [Called EXCEPT !.pc = "done", !.op = "write", !.n = n,
                                   !.write = p.write, !.read = p.read,
                                   !.buf = input, !.data = input,
                                   !.result = "Ok"]
               ELSE [Called EXCEPT !.pc = "loop", !.op = "write", !.n = n,
                                 !.write = p.write, !.read = p.read,
                                 !.buf = input, !.data = input]
    /\ UNCHANGED <<avars, cvars, hvars, direction, size, mem, tWrite, tRead, tpc, sent, rcvd>>

\* A caller writes the next n bytes of the tagged stream.
write_enter(n) ==
    /\ Len(sent) + n <= MaxBytes
    /\ write_begin(Stream(Len(sent), n))

\* One iteration of write's loop: one data transfer into the ring.
write_loop ==
    /\ h.pc = "loop" /\ h.op = "write"
    /\ Len(h.buf) > 0
    /\ LET count == min(writable_contiguous(h.write, h.read), Len(h.buf))
           bytes == SubSeq(h.buf, 1, count)
           write1 == h.write + count
       IN
       /\ count # 0
       /\ mem' = write_8(h.write, bytes)
       /\ xfers' = Append(xfers,
                          Xfer("write_8", "buffer_ptr", h.write, count, bytes))
       /\ h' = [h EXCEPT !.total = h.total + count,
                         !.write = wrap_write(write1),
                         !.buf = SubSeq(h.buf, count + 1, Len(h.buf))]
    /\ UNCHANGED <<avars, cvars, hvars, direction, size, tWrite, tRead, tpc, snap, sent, rcvd>>

\* Exit of write's loop: write the write offset back and return Ok(total).
write_exit ==
    /\ h.pc = "loop" /\ h.op = "write"
    /\ \/ Len(h.buf) = 0
       \/ min(writable_contiguous(h.write, h.read), Len(h.buf)) = 0
    /\ write_back(O_WRITE, h.write)
    /\ xfers' = Append(xfers, Xfer("write_8", "ptr", O_WRITE, 4, h.write))
    /\ h' = [h EXCEPT !.pc = "done", !.result = "Ok"]
    /\ sent' = sent \o SubSeq(h.data, 1, h.total)
    /\ UNCHANGED <<avars, cvars, hvars, direction, size, mem, tpc, snap, rcvd>>

----------------------------------------------------------------------------
\* Host: a memory transfer fails. Every core.read_8 and core.write_8 of read,
\* write and read_pointers is followed by `?`: the call returns the probe's
\* error at once. A transfer that fails is taken to have moved no byte.

\* Variant: the probe's error is reported as a corrupted control block.
from_probe_error_corrupted == "ControlBlockCorrupted"

\* Error::Probe(#[from] probe_rs::Error): what `?` makes of a probe error.
from_probe_error == "Probe"

\* The length of the next data transfer of the call in progress.
next_count ==
    min(IF h.op = "read" THEN readable_contiguous(h.write, h.read)
        ELSE writable_contiguous(h.write, h.read), Len(h.buf))

\* The transfer of read_pointers fails at the entry of read (into a buffer
\* of length n) or of write (of the bytes `input`).
fetch_fails(n, input) ==
    /\ h.pc = "idle"
    /\ xfers' = <<Xfer("read_8 failed", "ptr", O_WRITE, 8, <<>>)>>
    /\ snap' = mem
    /\ h' = IF direction = "Up"
            THEN [Called EXCEPT !.pc = "done", !.op = "read", !.n = n,
                              !.buf = Stream(0, n),
                              !.result = from_probe_error]
            ELSE [Called EXCEPT !.pc = "done", !.op = "write",
                              !.n = Len(input),
                              !.buf = input, !.data = input,
                              !.result = from_probe_error]
    /\ UNCHANGED <<avars, cvars, hvars, direction, size, mem, tWrite, tRead, tpc, sent, rcvd>>

\* The fetch fails for a caller that reads into a buffer of length n or
\* writes the next n bytes of the tagged stream.
pointers_fetch_fails(n) ==
    /\ direction = "Down" => Len(sent) + n <= MaxBytes
    /\ fetch_fails(n, Stream(Len(sent), n))

\* The transfer of a data chunk fails in the loop of read or write.
data_transfer_fails ==
    /\ h.pc = "loop"
    /\ Len(h.buf) > 0 /\ next_count # 0
    /\ xfers' = Append(xfers,
                       IF h.op = "read"
                       THEN Xfer("read_8 failed", "buffer_ptr", h.read,
                                 next_count, <<>>)
                       ELSE Xfer("write_8 failed", "buffer_ptr", h.write,
                                 next_count, SubSeq(h.buf, 1, next_count)))
    /\ h' = [h EXCEPT !.pc = "done", !.result = from_probe_error]
    /\ UNCHANGED <<avars, cvars, hvars, direction, size, mem, tWrite, tRead, tpc, snap, sent, rcvd>>

\* The transfer that writes the offset back fails.
write_back_fails ==
    /\ h.pc = "loop"
    /\ Len(h.buf) = 0 \/ next_count = 0
    /\ xfers' = Append(xfers,
                       IF h.op = "read"
                       THEN Xfer("write_8 failed", "ptr", O_READ, 4, h.read)
                       ELSE Xfer("write_8 failed", "ptr", O_WRITE, 4, h.write))
    /\ h' = [h EXCEPT !.pc = "done", !.result = from_probe_error]
    /\ UNCHANGED <<avars, cvars, hvars, direction, size, mem, tWrite, tRead, tpc, snap, sent, rcvd>>

----------------------------------------------------------------------------
\* Host: Rtt::read and Rtt::write with a channel number that is not in the
\* table (read_enter and write_enter are the calls that found the channel).

\* Variant: a missing channel is passed over in silence.
no_such_channel_ok == "Ok"

\* .ok_or_else(|| Error::NoSuchChannel)
no_such_channel == "NoSuchChannel"

\* Rtt::read(channel, buf): self.up_channels.get(&channel) is None.
Rtt_read_missing(channel) ==
    /\ h.pc = "idle"
    /\ channel \notin DOMAIN up_channels
    /\ h' = [Idle EXCEPT !.pc = "done", !.op = "read", !.channel = channel,
                         !.result = no_such_channel]
    /\ UNCHANGED <<avars, cvars, hvars, direction, size, mem, tWrite, tRead, tpc, xfers, snap, sent, rcvd>>

\* Rtt::write(channel, buf): self.down_channels.get(&channel) is None.
Rtt_write_missing(channel) ==
    /\ h.pc = "idle"
    /\ channel \notin DOMAIN down_channels
    /\ h' = [Idle EXCEPT !.pc = "done", !.op = "write", !.channel = channel,
                         !.result = no_such_channel]
    /\ UNCHANGED <<avars, cvars, hvars, direction, size, mem, tWrite, tRead, tpc, xfers, snap, sent, rcvd>>

\* The caller takes the result; the next call may start.
host_return ==
    /\ h.pc = "done"
    /\ h' = Idle
    /\ xfers' = <<>>
    /\ snap' = <<>>
    /\ UNCHANGED <<avars, cvars, hvars, direction, size, mem, tWrite, tRead, tpc, sent, rcvd>>

----------------------------------------------------------------------------
\* Target: producer of an up channel, consumer of a down channel

\* The producer stores the next byte at the write offset, keeping one slot free.
target_store ==
    /\ direction = "Up" /\ tpc = "idle"
    /\ ValidOffsets
    /\ (tWrite + 1) % size # tRead
    /\ Len(sent) < MaxBytes
    /\ mem' = [mem EXCEPT ![tWrite] = Len(sent) + 1]
    /\ tpc' = "stored"
    /\ UNCHANGED <<avars, cvars, hvars, direction, size, tWrite, tRead, h, xfers, snap, sent, rcvd>>

\* The producer publishes the stored byte by advancing the write offset.
target_publish ==
    /\ direction = "Up" /\ tpc = "stored"
    /\ tWrite' = (tWrite + 1) % size
    /\ sent' = Append(sent, mem[tWrite])
    /\ tpc' = "idle"
    /\ UNCHANGED <<avars, cvars, hvars, direction, size, mem, tRead, h, xfers, snap, rcvd>>

\* The consumer reads the byte at the read offset when read # write.
target_load ==
    /\ direction = "Down" /\ tpc = "idle"
    /\ ValidOffsets
    /\ tRead # tWrite
    /\ rcvd' = Append(rcvd, mem[tRead])
    /\ tpc' = "loaded"
    /\ UNCHANGED <<avars, cvars, hvars, direction, size, mem, tWrite, tRead, h, xfers, snap, sent>>

\* The consumer advances the read offset past the byte it read.
target_advance ==
    /\ direction = "Down" /\ tpc = "loaded"
    /\ tRead' = (tRead + 1) % size
    /\ tpc' = "idle"
    /\ UNCHANGED <<avars, cvars, hvars, direction, size, mem, tWrite, h, xfers, snap, sent, rcvd>>

----------------------------------------------------------------------------

NoRegion == [kind |-> "none", start |-> 0, len |-> 0, blocks |-> {}]
NoResult == [tag |-> "none", val |-> <<>>]

\* attach is not running (the ring buffer calls are explored on their own).
AttachOff ==
    /\ apc = "off" /\ ri = 0 /\ region = NoRegion /\ broke = FALSE
    /\ instances = <<>> /\ aresult = NoResult /\ build = "any"

\* rtthost does not run (the library's calls are explored on their own).
HostOff ==
    /\ hpc = "off" /\ stdin_pc = "ended" /\ rx = <<>>
    /\ down_buf = <<>> /\ typed = 0

NoBlock == [ptr |-> 0, up |-> 0, down |-> 0, mem |-> <<>>]
NoCall == [op |-> "none"]

\* Option<T>
None == [some |-> FALSE, val |-> <<>>]
Some(v) == [some |-> TRUE, val |-> v]

\* read_c_string has not returned.
NoString == [tag |-> "none", name |-> None]

\* Neither Rtt::from's channel loops, read_c_string nor a call on a channel
\* table is running.
ParseOff ==
    /\ memory_map = <<>> /\ zeros = {} /\ cb = NoBlock
    /\ ppc = "off" /\ pi = 0
    /\ presult = "none" /\ reads = <<>>
    /\ sptr = 0 /\ sres = NoString /\ reg = NoCall

\* Nor does an Rtt with its tables exist.
ChannelsOff ==
    /\ ParseOff
    /\ up_channels = <<>> /\ down_channels = <<>>

\* The descriptor of the channel whose ring is explored, as RttChannel::from
\* decodes it (the ring calls use neither its name nor its addresses, which
\* stand for any).
RingChannel(n, f) ==
    [number |-> n, direction |-> direction, ptr |-> MIN_SIZE + n * SIZE,
     name |-> None, buffer_ptr |-> MIN_SIZE + (MaxNumber + 1) * SIZE,
     size |-> size, flags |-> f]

\* An Rtt whose one channel has a number of `numbers`, a size of `sizes` and
\* flags of `flagvals`, with any live offsets: a ring holding the first bytes
\* of the stream between read and write, or corrupted offsets.
RingInit(numbers, sizes, flagvals) ==
    /\ direction \in {"Up", "Down"}
    /\ size \in sizes
    /\ \E n \in numbers, f \in flagvals :
          /\ up_channels = IF direction = "Up"
                           THEN (n :> RingChannel(n, f)) ELSE <<>>
          /\ down_channels = IF direction = "Down"
                             THEN (n :> RingChannel(n, f)) ELSE <<>>
    /\ tWrite \in 0..MaxSize
    /\ tRead \in 0..MaxSize
    /\ LET k == IF ValidOffsets THEN Unread(tWrite, tRead) ELSE 0 IN
       /\ mem = [i \in 0..(size - 1) |->
                    IF ValidOffsets /\ (i - tRead + size) % size < k
                    THEN ((i - tRead + size) % size) + 1 ELSE 0]
       /\ sent = Stream(0, k)
    /\ rcvd = <<>>
    /\ tpc = "idle"
    /\ h = Idle
    /\ xfers = <<>>
    /\ snap = <<>>

\* Any channel a scan can have decoded, of any size, with any live offsets.
Init ==
    /\ AttachOff
    /\ ParseOff
    /\ HostOff
    /\ RingInit(0..MaxNumber, 0..MaxSize, {0})

Next ==
    \/ \E n \in 0..MaxLen : read_enter(n)
    \/ read_loop
    \/ read_exit
    \/ \E n \in 0..MaxLen : write_enter(n)
    \/ write_loop
    \/ write_exit
    \/ \E n \in 0..MaxLen : pointers_fetch_fails(n)
    \/ data_transfer_fails
    \/ write_back_fails
    \/ \E c \in 0..MaxNumber : Rtt_read_missing(c)
    \/ \E c \in 0..MaxNumber : Rtt_write_missing(c)
    \/ host_return
    \/ target_store
    \/ target_publish
    \/ target_load
    \/ target_advance

Spec == Init /\ [][Next]_vars

----------------------------------------------------------------------------
\* RttChannel::mode, and the ring calls on channels of any flags

\* Largest value of the flags field of the channel whose ring is explored.
MaxFlags == 3

\* The values of the flags field of the channel whose ring is explored.
Flags == 0..MaxFlags

\* The four largest values of a flags field that fit 31 bits.
BigFlags == {32767 * 65536 + 65535 - k : k \in 0..3}

\* flags & 0x3, bit by bit.
and_0x3(flags) == (flags % 2) + 2 * ((flags \div 2) % 2)

\* Variant: only the lowest bit of the flags is looked at.
mode_low_bit(flags) ==
    IF flags % 2 = 0 THEN "NoBlockSkip" ELSE "NoBlockTrim"

\* RttChannel::mode
mode(flags) ==
    CASE and_0x3(flags) = 0 -> "NoBlockSkip"
      [] and_0x3(flags) = 1 -> "NoBlockTrim"
      [] and_0x3(flags) = 2 -> "BlockIfFifoFull"
      [] OTHER -> "Invalid"

\* The descriptor of the channel whose ring is explored.
ring_channel ==
    IF direction = "Up" THEN up_channels[ring_number]
    ELSE down_channels[ring_number]

\* The caller asks the channel for its mode, between two ring calls.
channel_mode ==
    /\ h.pc = "idle"
    /\ reg' = [op |-> "mode", val |-> mode(ring_channel.flags)]
    /\ UNCHANGED <<memory_map, zeros, cb, ppc, pi, up_channels, down_channels,
                   presult, reads, sptr, sres>>
    /\ UNCHANGED <<ringVars, avars, hvars>>

\* Channel 0 with a buffer of the largest size, with any flags.
InitMode ==
    /\ AttachOff
    /\ ParseOff
    /\ HostOff
    /\ RingInit({0}, {MaxSize}, Flags)

NextMode == Next \/ channel_mode

SpecMode == InitMode /\ [][NextMode]_vars

----------------------------------------------------------------------------
\* Properties of the ring buffer calls (checked under Spec)

\* The call in progress has fetched the offsets.
FetchDone == xfers # <<>> /\ xfers[1].op = "read_8"

\* The offsets the call in progress fetched: <<write, read>>.
Fetched == xfers[1].val
FetchedWrite == Fetched[1]
FetchedRead == Fetched[2]
FetchedValid == FetchedWrite < size /\ FetchedRead < size

\* The data transfers (ring accesses) of the call in progress.
DataXfers == {i \in 1..Len(xfers) : xfers[i].base = "buffer_ptr"}
\* The writes to target memory of the call in progress.
WriteXfers == {i \in 1..Len(xfers) : xfers[i].op = "write_8"}

InCall == h.pc \in {"loop", "done"} /\ FetchDone
Returned(op) == h.pc = "done" /\ h.op = op

\* C1: on an up channel, under every interleaving of the target producer's
\* steps and the host's read calls, the bytes the host reads have returned
\* (and the bytes the call in progress has copied) are a prefix of the bytes
\* the target published, in order: none dropped, duplicated or reordered.
C1_UpChannelFifo ==
    direction = "Up" =>
        IsPrefix(IF h.pc = "loop" THEN rcvd \o h.data ELSE rcvd, sent)

\* C1 witness: a read that wrapped (two chunks) has returned while the target
\* is between storing a byte and publishing it, and 3 bytes were received.
C1_Witness ==
    /\ direction = "Up" /\ Returned("read")
    /\ Cardinality(DataXfers) = 2
    /\ tpc = "stored"
    /\ Len(rcvd) >= 3

\* C2: on a down channel, under every interleaving of host write calls and
\* the target consumer's steps, the bytes the target consumed are a prefix of
\* the accepted parts of the host's inputs (no unconsumed byte overwritten).
C2_DownChannelFifo ==
    direction = "Down" => IsPrefix(rcvd, sent)

\* C3: a write call that fetched read = write = w (any w, also 0) and was
\* given at least size bytes returns exactly size - 1.
C3_EmptyCapacity ==
    (/\ Returned("write") /\ h.result = "Ok"
     /\ FetchedRead = FetchedWrite
     /\ h.n >= size)
    => h.total = size - 1

\* C4: a write call that fetched read = (write + 1) mod size and was given a
\* non-empty input returns 0 and writes nothing to target memory.
C4_FullWritesNothing ==
    (/\ InCall /\ h.op = "write" /\ FetchedValid
     /\ FetchedRead = (FetchedWrite + 1) % size
     /\ h.n > 0)
    => /\ WriteXfers = {}
       /\ h.pc = "done" /\ h.result = "Ok" /\ h.total = 0

\* C5: a read that fetched valid (write, read) with an output buffer of
\* length n returns total = min(n, (write - read) mod size); the bytes it
\* returns are the ring's bytes at read, read+1, ... (mod size) in order; and
\* when total > 0 the offset written back is (read + total) mod size.
C5_ReadAmount ==
    (Returned("read") /\ h.result = "Ok") =>
        LET w == FetchedWrite
            r == FetchedRead
            t == min(h.n, (w - r + size) % size)
        IN  /\ h.total = t
            /\ h.data = [i \in 1..t |-> snap[(r + i - 1) % size]]
            /\ t > 0 =>
                  /\ xfers[Len(xfers)] =
                        Xfer("write_8", "ptr", O_READ, 4, (r + t) % size)
                  /\ tRead = (r + t) % size

\* C5 witness: a read that wrapped returned 2 or more bytes, fewer than were
\* unread, into a buffer they filled.
C5_Witness ==
    /\ Returned("read") /\ h.result = "Ok"
    /\ FetchedRead > FetchedWrite
    /\ h.total >= 2 /\ h.total = h.n
    /\ h.total < (FetchedWrite - FetchedRead + size) % size

\* C6: a read call makes at most two data transfers, and makes two only when
\* the read offset it fetched was greater than the write offset.
C6_ReadTwoChunks ==
    (InCall /\ h.op = "read") =>
        /\ Cardinality(DataXfers) <= 2
        /\ Cardinality(DataXfers) = 2 => FetchedRead > FetchedWrite

\* C6 witness: a read call that made two data transfers.
C6_Witness ==
    /\ Returned("read") /\ Cardinality(DataXfers) = 2
    /\ xfers[3].off = 0

\* C7: a write call makes at most two data transfers and copies at most
\* size - 1 bytes, for every valid (write, read) and every input length.
C7_WriteTwoChunks ==
    (InCall /\ h.op = "write") =>
        /\ Cardinality(DataXfers) <= 2
        /\ FetchedValid => h.total <= size - 1

\* C8: a read or write call that fetched a write or read offset >= size
\* (also with size = 0) returns ControlBlockCorrupted having made no
\* transfer but the fetch: no ring access, no offset written back.
C8_CorruptionGate ==
    (InCall /\ ~FetchedValid) =>
        /\ h.pc = "done" /\ h.result = "ControlBlockCorrupted"
        /\ Len(xfers) = 1
        /\ h.total = 0

\* C8 witness: a call returned ControlBlockCorrupted for an offset equal to
\* the buffer size.
C8_Witness ==
    /\ h.pc = "done" /\ h.result = "ControlBlockCorrupted"
    /\ size > 0
    /\ FetchedWrite = size \/ FetchedRead = size

\* C9: every step of a host read leaves the write offset and the ring data
\* unchanged and writes target memory only at descriptor+16 (4 bytes); every
\* step of a host write leaves the read offset unchanged and writes target
\* memory only inside the ring or at descriptor+12 (4 bytes).
C9_PointerOwnership ==
    [][(h' # h) =>
        /\ h'.op = "read" =>
              /\ tWrite' = tWrite /\ mem' = mem
              /\ \A i \in 1..Len(xfers') :
                    xfers'[i].op = "write_8" =>
                        /\ xfers'[i].base = "ptr"
                        /\ xfers'[i].off = O_READ /\ xfers'[i].len = 4
        /\ h'.op = "write" =>
              /\ tRead' = tRead
              /\ \A i \in 1..Len(xfers') :
                    xfers'[i].op = "write_8" =>
                        \/ /\ xfers'[i].base = "buffer_ptr"
                           /\ xfers'[i].off >= 0
                           /\ xfers'[i].off + xfers'[i].len <= size
                        \/ /\ xfers'[i].base = "ptr"
                           /\ xfers'[i].off = O_WRITE /\ xfers'[i].len = 4
    ]_vars

\* C9 witness: a call (a read on an up channel, a write on a down channel)
\* that transferred data and wrote its own offset back with a new value.
C9_Witness ==
    /\ h.pc = "done" /\ h.total > 0
    /\ \/ h.op = "read" /\ tRead # FetchedRead
       \/ h.op = "write" /\ tWrite # FetchedWrite

\* C18: a call of Rtt::read whose channel number is not in the up table
\* (also when it is in the down table), and a call of Rtt::write whose number
\* is not in the down table, has returned NoSuchChannel without any memory
\* transfer; and NoSuchChannel is returned to no other call.
C18_NoSuchChannel ==
    (h.pc \in {"loop", "done"}) =>
        LET absent == \/ h.op = "read" /\ h.channel \notin DOMAIN up_channels
                      \/ h.op = "write" /\ h.channel \notin DOMAIN down_channels
        IN  /\ absent => /\ h.pc = "done" /\ h.result = "NoSuchChannel"
                          /\ xfers = <<>> /\ h.total = 0
            /\ h.result = "NoSuchChannel" => absent

\* C18 witness: Rtt::read returned NoSuchChannel for the number of the down
\* channel, to whose ring the host has written before.
C18_Witness ==
    /\ h.pc = "done" /\ h.op = "read" /\ h.result = "NoSuchChannel"
    /\ h.channel \in DOMAIN down_channels
    /\ h.channel = MaxNumber
    /\ Len(sent) > 0

\* The mode the low two bits m of the flags select.
ModeOf(m) ==
    CASE m = 0 -> "NoBlockSkip"
      [] m = 1 -> "NoBlockTrim"
      [] m = 2 -> "BlockIfFifoFull"
      [] m = 3 -> "Invalid"

\* The number of bytes write's loop copies of n bytes into a ring of offsets
\* w, r, by the channel's size alone.
RECURSIVE WriteTotal(_, _, _)
WriteTotal(w, r, n) ==
    LET space == IF r > w THEN r - w - 1 ELSE size - w
        c == min(space, n)
    IN  IF n = 0 \/ c = 0 THEN 0
        ELSE c + WriteTotal(IF w + c >= size THEN 0 ELSE w + c, r, n - c)

\* C20 (checked under SpecMode): the mode of a flags value is the one its
\* value mod 4 selects (0 NoBlockSkip, 1 NoBlockTrim, 2 BlockIfFifoFull,
\* 3 Invalid) and the same as the mode of that value mod 4; and whatever the
\* flags of the channel, a call that fetched an offset >= size returns
\* ControlBlockCorrupted, a read returns min(n, (write - read) mod size) and
\* a write the amount its loop copies by the offsets, n and the size alone.
C20_ModeDecoding ==
    /\ \A f \in Flags \cup BigFlags :
          mode(f) = ModeOf(f % 4) /\ mode(f) = mode(f % 4)
    /\ reg.op = "mode" => reg.val = ModeOf(ring_channel.flags % 4)
    /\ (h.pc = "done" /\ FetchDone /\ h.result # "Probe") =>
          h.result = IF FetchedValid THEN "Ok" ELSE "ControlBlockCorrupted"
    /\ (Returned("read") /\ h.result = "Ok") =>
          h.total = min(h.n, (FetchedWrite - FetchedRead + size) % size)
    /\ (Returned("write") /\ h.result = "Ok") =>
          h.total = WriteTotal(FetchedWrite, FetchedRead, h.n)

\* C20 witness: on a down channel whose mode is BlockIfFifoFull a write has
\* returned having taken a part of its input only.
C20_Witness ==
    /\ reg.op = "mode" /\ reg.val = "BlockIfFifoFull"
    /\ ring_channel.flags = 2
    /\ Returned("write") /\ h.result = "Ok"
    /\ h.total > 0 /\ h.total < h.n

\* The last transfer of the call in progress failed.
LastFailed ==
    /\ xfers # <<>>
    /\ xfers[Len(xfers)].op \in {"read_8 failed", "write_8 failed"}

\* C17: a call whose transfer failed (the fetch of the offsets, a data chunk
\* or the write-back) has returned Probe, with no further transfer; the
\* offset the host owns still has on the target the value the call fetched;
\* and the failing step changes neither offset on the target nor the streams
\* taken out of an up channel and published on a down channel.
C17_TransportFailure ==
    /\ [](LastFailed =>
            /\ h.pc = "done" /\ h.result = "Probe"
            /\ \A i \in 1..(Len(xfers) - 1) :
                   xfers[i].op \in {"read_8", "write_8"}
            /\ FetchDone =>
                   /\ h.op = "read" => tRead = FetchedRead
                   /\ h.op = "write" => tWrite = FetchedWrite)
    /\ [][(LastFailed' /\ ~LastFailed) =>
             /\ tRead' = tRead /\ tWrite' = tWrite
             /\ rcvd' = rcvd /\ sent' = sent]_vars

\* C17 witness: a write that put a chunk into the ring returned Probe when the
\* write-back failed, and the write offset on the target is the one fetched,
\* not the one the call had reached.
C17_Witness ==
    /\ Returned("write") /\ h.result = "Probe"
    /\ Cardinality(DataXfers) >= 1
    /\ xfers[Len(xfers)] = Xfer("write_8 failed", "ptr", O_WRITE, 4, h.write)
    /\ tWrite = FetchedWrite /\ h.write # tWrite

\* C21: a read call that fetched valid offsets with write = read has returned
\* Ok(0) having made no transfer but the fetch (nothing is written to the
\* target, the read offset is not written back); a read call that fetched
\* valid offsets with write # read into a buffer of length 0 makes no data
\* transfer, and once it has returned its total is 0 and its one transfer
\* after the fetch is the write-back of the read offset with the value
\* fetched, by which it returns Ok (Probe only when that transfer failed).
C21_EmptyUpChannel ==
    (InCall /\ h.op = "read" /\ FetchedValid) =>
        /\ FetchedWrite = FetchedRead =>
              /\ h.pc = "done" /\ h.result = "Ok" /\ h.total = 0
              /\ Len(xfers) = 1
              /\ h.data = <<>>
        /\ (FetchedWrite # FetchedRead /\ h.n = 0) =>
              /\ DataXfers = {}
              /\ h.total = 0
              /\ h.pc = "loop" => Len(xfers) = 1
              /\ h.pc = "done" =>
                    /\ Len(xfers) = 2
                    /\ xfers[2].base = "ptr" /\ xfers[2].off = O_READ
                    /\ xfers[2].len = 4 /\ xfers[2].val = FetchedRead
                    /\ h.result = IF xfers[2].op = "write_8" THEN "Ok"
                                  ELSE "Probe"
                    /\ tRead = FetchedRead

\* C21 witness: a read with room for data returned Ok(0) from a ring that
\* earlier reads had drained of everything the target published.
C21_Witness ==
    /\ Returned("read") /\ h.result = "Ok" /\ h.total = 0
    /\ FetchedValid /\ FetchedWrite = FetchedRead
    /\ h.n > 0
    /\ Len(sent) >= 2 /\ rcvd = sent
    /\ WriteXfers = {}

\* A read into a buffer of length 0 returned Ok(0) from a ring that holds
\* data, writing the read offset back as it was.
C21_ZeroLengthRead ==
    /\ Returned("read") /\ h.result = "Ok" /\ h.total = 0
    /\ h.n = 0 /\ FetchedValid /\ FetchedWrite # FetchedRead
    /\ xfers[2] = Xfer("write_8", "ptr", O_READ, 4, FetchedRead)

\* C22: in a read or write call that fetched valid offsets, every data
\* transfer (one that failed included) starts at an offset < size of the ring
\* and has a length of at least 1 and at most size minus that offset; the
\* offsets the call holds and the offset it writes back are < size; and the
\* offsets on the target stay < size.
C22_RingAccessBounds ==
    (InCall /\ FetchedValid) =>
        /\ \A i \in DataXfers :
              /\ xfers[i].off >= 0 /\ xfers[i].off < size
              /\ xfers[i].len >= 1
              /\ xfers[i].len <= size - xfers[i].off
        /\ \A i \in 2..Len(xfers) :
              xfers[i].base = "ptr" =>
                  xfers[i].val >= 0 /\ xfers[i].val < size
        /\ h.read >= 0 /\ h.read < size
        /\ h.write >= 0 /\ h.write < size
        /\ ValidOffsets

\* C22 witness: a write made two data transfers, the first one up to the last
\* byte of the buffer and the second one from offset 0, and wrote back the
\* offset behind the second.
C22_Witness ==
    /\ Returned("write") /\ h.result = "Ok" /\ FetchedValid
    /\ Cardinality(DataXfers) = 2
    /\ xfers[2].off + xfers[2].len = size
    /\ xfers[3].off = 0
    /\ xfers[4] = Xfer("write_8", "ptr", O_WRITE, 4, xfers[3].len)
    /\ tWrite = xfers[3].len

----------------------------------------------------------------------------
\* Rtt::attach: the scan for control blocks

\* A channel count no control block in a region of this size can have.
HugeCount == 1000000

\* The pairs <<max_up_channels, max_down_channels>> found behind an ID match.
CountPairs == {<<0, 0>>, <<1, 1>>, <<HugeCount, 0>>}

\* The offsets at which a snapshot may hold the ID.
Slots == {SIZE * k : k \in 0..(MaxBlocks - 1)}

\* The lengths of a region: too short for a control block, exactly MIN_SIZE,
\* and long enough for MaxBlocks empty control blocks, less one byte or not.
RegionLens == {MIN_SIZE - 1, MIN_SIZE, SIZE * MaxBlocks, SIZE * MaxBlocks + 1}

\* Regions follow each other in the address space.
RegionStride == SIZE * MaxBlocks + 1

\* The RAM regions the memory map may hold at position i, with the ID at any
\* of the slots that leave room for the two counts, and one pair of counts
\* behind every ID of the region.
RamRegions(i) ==
    UNION {
        {[kind |-> "Ram", start |-> i * RegionStride, len |-> l,
          blocks |-> {[off |-> o, up |-> c[1], down |-> c[2]] : o \in S}] :
            c \in CountPairs,
            S \in SUBSET {o \in Slots : o + MIN_SIZE <= l}} :
        l \in RegionLens}

\* The least channel count c with SIZE * c >= 2^32 (0x0AAAAAAB): the size of
\* its table does not fit 32 bits.
WrapCount == 2730 * 65536 + 43691

\* RAM regions holding one ID, with a count behind it whose table size exceeds
\* 32 bits.
WrapRegions(i) ==
    UNION {
        {[kind |-> "Ram", start |-> i * RegionStride, len |-> l,
          blocks |-> {[off |-> o, up |-> WrapCount, down |-> 0]}] :
            o \in {x \in Slots : x + MIN_SIZE <= l}} :
        l \in RegionLens}

\* The regions the memory map may hold at position i: a RAM region, or a
\* flash region (never read by attach) holding a control block.
Regions(i) ==
    RamRegions(i) \cup WrapRegions(i) \cup
    {[kind |-> "Flash", start |-> i * RegionStride, len |-> RegionStride,
      blocks |-> {[off |-> 0, up |-> 0, down |-> 0]}]}

\* The RAM regions whose read may fail (their content is never seen).
UnreadRegions(i) ==
    {[kind |-> "Ram", start |-> i * RegionStride, len |-> l, blocks |-> {}] :
        l \in RegionLens}

\* usize values are held in two limbs, hi * LIMB + lo with lo < LIMB, so that
\* values of 32 bits and more can be told apart.
LIMB == 256 * 256

\* O_CHANNEL_ARRAYS + (max_up_channels + max_down_channels) * SIZE, as the
\* integer it denotes (no width applied yet).
block_size(max_up_channels, max_down_channels) ==
    LET n == max_up_channels + max_down_channels
        lo == (n % LIMB) * SIZE + MIN_SIZE
        hi == (n \div LIMB) * SIZE + (lo \div LIMB)
    IN  [hi |-> hi, lo |-> lo % LIMB]

\* The value v does not fit a usize of 32 bits.
exceeds_u32(v) == v.hi >= LIMB

\* The value v truncated to 32 bits (wrapping arithmetic).
wrap_u32(v) == [hi |-> v.hi % LIMB, lo |-> v.lo]

\* v >= len, for a length below LIMB.
size_ge(v, len) == v.hi > 0 \/ v.lo >= len

\* Rtt::from on the slice mem[offset..] of region r's snapshot, in build bld:
\* None, Some with the instance, or a panic. The counts are u32 cast to usize
\* and the size is computed in usize. A usize of 64 bits holds every such
\* size. With a usize of 32 bits a size of 2^32 or more panics at the
\* arithmetic when overflow checks are on; when they are off it wraps, and a
\* wrapped size below len passes the test, after which the loops over the
\* channel records leave the snapshot (&mem[offset..] panics).
Rtt_from(r, offset, bld) ==
    LET len == r.len - offset
        at == {b \in r.blocks : b.off = offset}
        inst == [ptr |-> r.start + offset]
    IN  IF at = {} THEN [tag |-> "None", inst |-> inst, wide |-> FALSE]
        ELSE LET b == CHOOSE x \in at : TRUE
                 max_up_channels == b.up
                 max_down_channels == b.down
                 v == block_size(max_up_channels, max_down_channels)
                 wide == exceeds_u32(v)
                 tag == IF wide /\ bld = "32-debug" THEN "panic"
                        ELSE IF wide /\ bld = "32-release"
                        THEN IF size_ge(wrap_u32(v), len)
                             THEN "None" ELSE "panic"
                        ELSE IF size_ge(v, len) THEN "None" ELSE "Some"
             IN  [tag |-> tag, inst |-> inst, wide |-> wide]

\* The offsets of the range offset..(len - MIN_SIZE - 1) of attach's inner
\* loop at which the ID matches.
Matches(r, offset) ==
    {b.off : b \in {x \in r.blocks : /\ x.off >= offset
                                      /\ x.off < r.len - MIN_SIZE}}

\* The inner loop of attach over the offsets of one region's snapshot, from
\* `offset` on: the instances collected, whether `break 'out` was taken,
\* whether Rtt::from panicked, and whether a size of more than 32 bits was
\* computed. Rtt::from returns None at an offset where the ID does not match
\* and the iteration changes nothing, so the loop is taken from one match to
\* the next.
RECURSIVE scan(_, _, _, _, _)
scan(r, insts, offset, bld, wide) ==
    LET ms == Matches(r, offset) IN
    IF ms = {}
    THEN [instances |-> insts, broke |-> FALSE, panic |-> FALSE,
          wide |-> wide]
    ELSE LET o == CHOOSE x \in ms : \A y \in ms : x <= y
             got == Rtt_from(r, o, bld)
             w == wide \/ got.wide
         IN
         IF got.tag = "panic"
         THEN [instances |-> insts, broke |-> FALSE, panic |-> TRUE,
               wide |-> w]
         ELSE IF got.tag = "None"
         THEN scan(r, insts, o + 1, bld, w)
         ELSE LET pushed == Append(insts, got.inst) IN
              IF Len(pushed) > MAX_INSTANCES
              THEN [instances |-> pushed, broke |-> TRUE, panic |-> FALSE,
                    wide |-> w]
              ELSE scan(r, pushed, o + 1, bld, w)

\* The builds a scan of region r may run in: the build of the run once it is
\* known; any of them when r holds a count that tells them apart.
Builds(r) ==
    IF build # "any" THEN {build}
    ELSE IF \E b \in r.blocks : exceeds_u32(block_size(b.up, b.down))
    THEN {"64", "32-debug", "32-release"}
    ELSE {"any"}

\* The end mem.len() - Self::MIN_SIZE of the range of attach's inner loop is
\* below zero for a snapshot of `len` bytes: it does not exist in usize.
underflows(len) == len - MIN_SIZE < 0

\* Variant: the first of several candidates is returned.
attach_policy_first(insts) ==
    IF Len(insts) = 0
    THEN [tag |-> "ControlBlockNotFound", val |-> <<>>]
    ELSE [tag |-> "Ok", val |-> <<insts[1]>>]

\* The end of attach: what it returns for the instances collected.
attach_policy(insts) ==
    IF Len(insts) = 0
    THEN [tag |-> "ControlBlockNotFound", val |-> <<>>]
    ELSE IF Len(insts) > 1
    THEN [tag |-> "MultipleControlBlocksFound",
          val |-> [i \in 1..Len(insts) |-> insts[i].ptr]]
    ELSE [tag |-> "Ok", val |-> <<insts[1]>>]

\* One iteration of the loop over the memory map: the next region is r. A
\* region that is not RAM is skipped; a RAM region is read and scanned. In a
\* RAM region shorter than MIN_SIZE the range 0..(len - MIN_SIZE) underflows:
\* the subtraction panics, or wraps and the slice of the ID panics.
attach_region(r) ==
    /\ apc = "scan" /\ ~broke
    /\ ri < MaxRegions
    /\ region' = r
    /\ IF r.kind # "Ram"
       THEN /\ ri' = ri + 1
            /\ UNCHANGED <<apc, broke, instances, aresult, build>>
       ELSE IF underflows(r.len)
       THEN /\ apc' = "done"
            /\ aresult' = [tag |-> "panic", val |-> <<>>]
            /\ UNCHANGED <<ri, broke, instances, build>>
       ELSE \E bld \in Builds(r) :
            \E s \in {scan(r, instances, 0, bld, FALSE)} :
            /\ build' = IF s.wide THEN bld ELSE build
            /\ instances' = s.instances
            /\ broke' = s.broke
            /\ IF s.panic
               THEN /\ apc' = "done"
                    /\ aresult' = [tag |-> "panic", val |-> <<>>]
                    /\ UNCHANGED ri
               ELSE /\ ri' = ri + 1
                    /\ UNCHANGED <<apc, aresult>>
    /\ UNCHANGED <<ringVars, cvars, hvars>>

\* core.read_8 of a RAM region fails: attach returns the probe's error.
attach_read_fails(r) ==
    /\ apc = "scan" /\ ~broke
    /\ ri < MaxRegions
    /\ r.kind = "Ram"
    /\ region' = r
    /\ apc' = "done"
    /\ aresult' = [tag |-> "Probe", val |-> <<>>]
    /\ UNCHANGED <<ri, broke, instances, build>>
    /\ UNCHANGED <<ringVars, cvars, hvars>>

\* The loop over the memory map has ended (no region is left, or by
\* `break 'out`): attach returns by its result policy.
attach_result ==
    /\ apc = "scan"
    /\ apc' = "done"
    /\ aresult' = attach_policy(instances)
    /\ UNCHANGED <<ri, region, broke, instances, build>>
    /\ UNCHANGED <<ringVars, cvars, hvars>>

\* None of the ring buffer calls runs.
RingOff ==
    /\ direction = "Up" /\ size = 0 /\ mem = <<>>
    /\ tWrite = 0 /\ tRead = 0 /\ tpc = "idle"
    /\ h = Idle /\ xfers = <<>> /\ snap = <<>>
    /\ sent = <<>> /\ rcvd = <<>>

\* attach is called; none of the ring buffer calls runs meanwhile.
InitAttach ==
    /\ apc = "scan" /\ ri = 0 /\ region = NoRegion /\ broke = FALSE
    /\ instances = <<>> /\ aresult = NoResult /\ build = "any"
    /\ RingOff
    /\ ChannelsOff
    /\ HostOff

NextAttach ==
    \/ \E r \in Regions(ri) : attach_region(r)
    \/ \E r \in UnreadRegions(ri) : attach_read_fails(r)
    \/ attach_result

SpecAttach == InitAttach /\ [][NextAttach]_vars

----------------------------------------------------------------------------
\* Properties of attach (checked under SpecAttach)

\* The addresses of the control blocks of region r that fit in it, as the
\* layout of the region gives them (not as the scan finds them).
FittingIn(r) ==
    {r.start + b.off : b \in
        {x \in r.blocks : /\ x.off < r.len - MIN_SIZE
                          /\ ~size_ge(block_size(x.up, x.down),
                                      r.len - x.off)}}

\* attach returned from its result policy (not by a probe error or a panic).
ScanEnded ==
    apc = "done" /\ aresult.tag \notin {"Probe", "panic"}

\* C10: when the scan has ended, attach returns ControlBlockNotFound for no
\* candidate, Ok with the candidate for exactly one, and for more than one
\* MultipleControlBlocksFound with the address of every candidate in scan
\* order (ascending, each candidate of the last region scanned among them);
\* never Ok when several were collected.
C10_ResultPolicy ==
    ScanEnded =>
        /\ Len(instances) = 0 => aresult.tag = "ControlBlockNotFound"
        /\ Len(instances) = 1 =>
              aresult = [tag |-> "Ok", val |-> <<instances[1]>>]
        /\ Len(instances) > 1 =>
              /\ aresult.tag = "MultipleControlBlocksFound"
              /\ Len(aresult.val) = Len(instances)
              /\ \A i \in 1..Len(instances) : aresult.val[i] = instances[i].ptr
              /\ \A i \in 1..(Len(aresult.val) - 1) :
                    aresult.val[i] < aresult.val[i + 1]
              /\ (region.kind = "Ram" /\ ~broke) =>
                    \A a \in FittingIn(region) :
                        \E i \in 1..Len(aresult.val) : aresult.val[i] = a
        /\ aresult.tag = "Ok" => Len(instances) = 1
        /\ aresult.tag = "ControlBlockNotFound" =>
              (region.kind = "Ram" => FittingIn(region) = {})

\* C10 witness: attach returned MultipleControlBlocksFound with candidates of
\* two regions, after returning was possible with none and with one.
C10_Witness ==
    /\ ScanEnded /\ aresult.tag = "MultipleControlBlocksFound"
    /\ Len(aresult.val) >= 3
    /\ aresult.val[1] < RegionStride
    /\ aresult.val[Len(aresult.val)] >= RegionStride

\* The last region visited was a RAM region that attach scanned to its end.
ScannedRegion ==
    /\ apc \in {"scan", "done"}
    /\ region.kind = "Ram" /\ region.len >= MIN_SIZE
    /\ ~broke
    /\ aresult.tag \notin {"Probe", "panic"}

\* The candidate at address a was collected.
Collected(a) == \E i \in 1..Len(instances) : instances[i].ptr = a

\* The control block b of region r, 24 + 24*(U + D) bytes from its ID, ends
\* behind the end of the region.
Oversize(b, r) == size_ge(block_size(b.up, b.down), r.len - b.off + 1)

\* C11: of the ID matches of a scanned region, exactly those whose whole
\* control block, 24 + 24*(U + D) bytes from the match, lies within the
\* region (a block that ends at the region's end included) were collected.
C11_AcceptByFit ==
    ScannedRegion =>
        \A b \in region.blocks :
            ~Oversize(b, region) <=> Collected(region.start + b.off)

\* C13: attach never holds more than 6 candidates; with the 6th it leaves the
\* region loop at once (the 6th candidate lies in the region visited last, so
\* no later region was read, and nothing is collected afterwards); and
\* MultipleControlBlocksFound carries between 2 and 6 addresses.
C13_CandidateCap ==
    (apc \in {"scan", "done"}) =>
        /\ Len(instances) <= 6
        /\ broke <=> Len(instances) = 6
        /\ broke =>
              /\ instances[6].ptr >= region.start
              /\ instances[6].ptr < region.start + region.len
        /\ aresult.tag = "MultipleControlBlocksFound" =>
              /\ Len(aresult.val) >= 2
              /\ Len(aresult.val) <= 6

\* C13 witness: attach returned 6 addresses although the region visited last
\* holds a further control block that fits, behind the 6th candidate.
C13_Witness ==
    /\ apc = "done" /\ broke
    /\ aresult.tag = "MultipleControlBlocksFound" /\ Len(aresult.val) = 6
    /\ \E a \in FittingIn(region) : a > aresult.val[6]


\* The results attach declares: Ok and the variants of Error it returns.
Declared ==
    {"Ok", "ControlBlockNotFound", "MultipleControlBlocksFound", "Probe"}

\* C24: whatever RAM region attach visited last, one shorter than 24 bytes
\* or of exactly 24 bytes included (regions holding a count whose table size
\* exceeds 32 bits aside), attach has not panicked: the range of offsets did
\* not underflow, no slice left the snapshot, and when attach has finished
\* its result is Ok or one of the declared errors.
C24_SmallRegionScan ==
    ( /\ apc \in {"scan", "done"}
      /\ region.kind = "Ram"
      /\ \A b \in region.blocks : ~exceeds_u32(block_size(b.up, b.down)) ) =>
        /\ aresult.tag # "panic"
        /\ ~underflows(region.len)
        /\ apc = "done" => aresult.tag \in Declared

\* A RAM region of exactly 24 bytes was scanned (no offset is tried) after a
\* region with a candidate, and attach returned Ok.
C24_ExactRegion ==
    /\ apc = "done" /\ aresult.tag = "Ok"
    /\ region.kind = "Ram" /\ region.len = MIN_SIZE
    /\ ri = 2

\* C15: in a RAM region visited by attach whose every ID match has counts
\* with a table too large for the region (28-bit counts whose size exceeds
\* 32 bits among them), attach does not panic and collects no candidate of
\* the region; and when this was the only region visited and its read did not
\* fail, attach returns ControlBlockNotFound.
C15_OversizedCounts ==
    ( /\ apc \in {"scan", "done"}
      /\ region.kind = "Ram" /\ region.len >= MIN_SIZE
      /\ \A b \in region.blocks : Oversize(b, region) ) =>
        /\ aresult.tag # "panic"
        /\ \A b \in region.blocks : ~Collected(region.start + b.off)
        /\ (apc = "done" /\ ri = 1 /\ aresult.tag # "Probe") =>
              aresult.tag = "ControlBlockNotFound"

----------------------------------------------------------------------------
\* Rtt::from: the channel tables, RttChannel::from and read_c_string

\* read_c_string reads at most this many bytes.
MAX_NAME == 128

\* Largest max_up_channels + max_down_channels of the control block parsed.
MaxSlots == 3

\* The address space: a RAM region, a region that is neither RAM nor flash,
\* and a flash region two bytes longer than the longest read of a name.
RamLen == 2 * MAX_NAME
FlashStart == RamLen + SIZE
FlashEnd == FlashStart + MAX_NAME + 2

RamRegion == [kind |-> "Ram", start |-> 0, end |-> RamLen]
GenericRegion == [kind |-> "Generic", start |-> RamLen, end |-> FlashStart]
FlashRegion == [kind |-> "Flash", start |-> FlashStart, end |-> FlashEnd]

\* The memory maps: with the flash region and without it.
MemoryMaps ==
    {<<RamRegion, GenericRegion, FlashRegion>>, <<RamRegion, GenericRegion>>}

\* The byte at address a of target memory: 0 at the addresses of `zeros`,
\* elsewhere an ASCII letter or, at every fifth address, the byte 0xFF (which
\* is not valid UTF-8).
target_byte(a) ==
    IF a \in zeros THEN 0 ELSE IF a % 5 = 4 THEN 255 ELSE 65 + (a % 26)

\* Variant: the bytes are taken as they are.
from_utf8_raw(bytes) == bytes

\* String::from_utf8_lossy on ASCII bytes and 0xFF: the string's characters.
\* An ASCII byte is its own character; 0xFF is replaced by U+FFFD.
from_utf8_lossy(bytes) ==
    [i \in DOMAIN bytes |-> IF bytes[i] < 128 THEN bytes[i] ELSE 65533]

\* Variant: the read is not bounded by the end of the region.
name_read_len_unbounded(range, ptr) == MAX_NAME

\* The length of read_c_string's read: up to 128 bytes, not going past the
\* end of the region.
name_read_len(range, ptr) == min(MAX_NAME, range.end - ptr)

\* read_c_string(core, memory_map, ptr) when core.read_8 succeeds: the read
\* it issues (none, or one) and the Option<String> it returns.
read_c_string(ptr) ==
    LET hits == {i \in DOMAIN memory_map :
                    /\ memory_map[i].kind \in {"Flash", "Ram"}
                    /\ memory_map[i].start <= ptr /\ ptr < memory_map[i].end}
    IN  IF hits = {} THEN [read |-> <<>>, name |-> None]
        ELSE LET range == memory_map[CHOOSE i \in hits :
                                        \A j \in hits : i <= j]
                 n == name_read_len(range, ptr)
                 bytes == [i \in 1..n |-> target_byte(ptr + i - 1)]
                 zs == {i \in 1..n : bytes[i] = 0}
             IN  [read |-> <<[ptr |-> ptr, len |-> n]>>,
                  name |-> IF zs = {} THEN None
                           ELSE LET p == CHOOSE i \in zs :
                                             \A j \in zs : i <= j
                                IN  Some(from_utf8_lossy(
                                             SubSeq(bytes, 1, p - 1)))]

\* The sets of addresses holding a zero byte: none; the last byte of RAM; the
\* last byte a read from the start of flash covers, and the byte behind it;
\* one address in every 16.
ZeroSets ==
    {{}, {RamLen - 1}, {FlashStart + MAX_NAME - 1}, {FlashStart + MAX_NAME},
     {a \in 0..FlashEnd : a % 16 = 7}}

\* read_c_string returns: core.read_8 succeeded, if it was called.
string_call ==
    /\ ppc = "string" /\ sres.tag = "none"
    /\ LET r == read_c_string(sptr) IN
       /\ reads' = r.read
       /\ sres' = [tag |-> "Ok", name |-> r.name]
    /\ UNCHANGED <<memory_map, zeros, cb, ppc, pi, up_channels, down_channels,
                   presult, sptr, reg>>
    /\ UNCHANGED <<ringVars, avars, hvars>>

\* core.read_8 fails: read_c_string returns the probe's error.
string_read_fails ==
    /\ ppc = "string" /\ sres.tag = "none"
    /\ LET r == read_c_string(sptr) IN
       /\ r.read # <<>>
       /\ reads' = r.read
       /\ sres' = [tag |-> "Probe", name |-> None]
    /\ UNCHANGED <<memory_map, zeros, cb, ppc, pi, up_channels, down_channels,
                   presult, sptr, reg>>
    /\ UNCHANGED <<ringVars, avars, hvars>>

\* read_c_string is called with any pointer, on any memory.
InitString ==
    /\ AttachOff /\ RingOff /\ HostOff
    /\ memory_map \in MemoryMaps
    /\ zeros \in ZeroSets
    /\ sptr \in 0..(FlashEnd + 1)
    /\ sres = NoString /\ reads = <<>>
    /\ ppc = "string" /\ pi = 0 /\ cb = NoBlock
    /\ up_channels = <<>> /\ down_channels = <<>>
    /\ presult = "none" /\ reg = NoCall

NextString == string_call \/ string_read_fails

SpecString == InitString /\ [][NextString]_vars

----------------------------------------------------------------------------
\* Properties of read_c_string (checked under SpecString)

\* The flash and RAM regions of the memory map that contain address p.
NameRegions(p) ==
    {memory_map[i] : i \in {j \in DOMAIN memory_map :
        /\ memory_map[j].kind \in {"Flash", "Ram"}
        /\ memory_map[j].start <= p /\ p < memory_map[j].end}}

\* The addresses of the zero bytes among the n bytes from p on.
ZerosFrom(p, n) == {a \in p..(p + n - 1) : target_byte(a) = 0}

\* The bytes of target memory from p up to the first zero byte behind it.
BytesBeforeZero(p, n) ==
    LET z == CHOOSE a \in ZerosFrom(p, n) : \A b \in ZerosFrom(p, n) : a <= b
    IN  [i \in 1..(z - p) |-> target_byte(p + i - 1)]

\* What C16 states of a returned read_c_string but for the content of the
\* name: the read stays within the region of the pointer and has
\* min(128, region end - p) bytes; no read and None for a pointer in no flash
\* or RAM region; None when the bytes read hold no zero byte, a name
\* otherwise.
StringReadBounds ==
    /\ Len(reads) <= 1
    /\ NameRegions(sptr) = {} => (reads = <<>> /\ sres.name = None)
    /\ \A g \in NameRegions(sptr) :
          /\ Len(reads) = 1
          /\ reads[1].ptr = sptr
          /\ reads[1].len = min(128, g.end - sptr)
          /\ reads[1].len <= 128
          /\ reads[1].ptr >= g.start
          /\ reads[1].ptr + reads[1].len <= g.end
          /\ sres.tag = "Ok" =>
                (sres.name.some <=> ZerosFrom(sptr, reads[1].len) # {})

\* C16 as stated: the bounds, and the name returned is the bytes before the
\* first zero byte.
C16_StringAsBytes ==
    (ppc = "string" /\ sres.tag # "none") =>
        /\ StringReadBounds
        /\ sres.name.some =>
              sres.name.val = BytesBeforeZero(sptr, reads[1].len)

\* C16 (amended): the bounds, and the name returned has one character for
\* every byte before the first zero byte: the byte itself when it is ASCII,
\* U+FFFD for the byte 0xFF (lossy UTF-8 decoding).
C16_StringReadBounds ==
    (ppc = "string" /\ sres.tag # "none") =>
        /\ StringReadBounds
        /\ sres.name.some =>
              LET raw == BytesBeforeZero(sptr, reads[1].len) IN
              /\ Len(sres.name.val) = Len(raw)
              /\ \A i \in 1..Len(raw) :
                    sres.name.val[i] = IF raw[i] < 128 THEN raw[i] ELSE 65533

\* C16 witness: a read of 2 bytes, from two bytes before the end of RAM, that
\* finds no zero byte and returns None.
C16_Witness ==
    /\ ppc = "string" /\ sres = [tag |-> "Ok", name |-> None]
    /\ sptr = RamLen - 2
    /\ reads = <<[ptr |-> sptr, len |-> 2]>>

----------------------------------------------------------------------------
\* Rtt::from: the loops over the channel records of an accepted control block

\* The channel records a control block may hold: with a name pointer or none,
\* in use (buffer pointer not 0) or not, and with a size and flags. The larger
\* size exceeds the RAM region the buffer lies in.
Records ==
    {[name_ptr |-> n, buffer_ptr |-> b, size |-> f[1], flags |-> f[2]] :
        n \in {0, RamLen - 2},
        b \in {0, RamLen - 16},
        f \in {<<16, 0>>, <<RamLen + 1, 2>>}}

\* Snapshot bytes that belong to no channel record of the block.
ZeroRecord == [name_ptr |-> 0, buffer_ptr |-> 0, size |-> 0, flags |-> 0]

\* The accepted control blocks: the counts, and a record at each of the
\* offsets 24, 48, ... of the snapshot mem that the counts span.
Blocks ==
    UNION {
        {[ptr |-> SIZE \div 2, up |-> c[1], down |-> c[2], mem |-> m] :
            m \in [{MIN_SIZE + SIZE * k : k \in 0..(c[1] + c[2] - 1)}
                       -> Records]} :
        c \in {x \in (0..MaxSlots) \X (0..MaxSlots) : x[1] + x[2] <= MaxSlots}}

\* The channel record in &mem[offset..].
RecordAt(offset) ==
    IF offset \in DOMAIN cb.mem THEN cb.mem[offset] ELSE ZeroRecord

\* The offset of up channel i's record in the control block.
up_offset(i) == MIN_SIZE + i * SIZE

\* Variant: the down records are taken from the start of the channel array.
down_offset_no_up(i) == MIN_SIZE + i * SIZE

\* The offset of down channel i's record in the control block.
down_offset(i) == MIN_SIZE + cb.up * SIZE + i * SIZE

\* RttChannel::from(number, direction, core, memory_map, ptr, mem) when the
\* read of the name succeeds: the read issued and the Option<RttChannel>.
RttChannel_from(number, dir, ptr, rec) ==
    LET buffer_ptr == rec.buffer_ptr
        name_ptr == rec.name_ptr
    IN  IF buffer_ptr = 0 THEN [read |-> <<>>, chan |-> None]
        ELSE LET s == IF name_ptr = 0 THEN [read |-> <<>>, name |-> None]
                      ELSE read_c_string(name_ptr)
             IN  [read |-> s.read,
                  chan |-> Some([number |-> number, direction |-> dir,
                                 ptr |-> ptr, name |-> s.name,
                                 buffer_ptr |-> rec.buffer_ptr,
                                 size |-> rec.size, flags |-> rec.flags])]

\* BTreeMap::insert
insert(t, k, v) == [x \in DOMAIN t \cup {k} |-> IF x = k THEN v ELSE t[x]]

\* What the channel loops leave alone.
ParseFixed ==
    /\ UNCHANGED <<memory_map, zeros, cb, sptr, sres, reg>>
    /\ UNCHANGED <<ringVars, avars, hvars>>

\* One iteration of the loop over the up channels.
from_up_channel ==
    /\ ppc = "up" /\ pi < cb.up
    /\ LET offset == up_offset(pi)
           r == RttChannel_from(pi, "Up", cb.ptr + offset, RecordAt(offset))
       IN
       /\ reads' = reads \o r.read
       /\ up_channels' = IF r.chan.some
                         THEN insert(up_channels, pi, r.chan.val)
                         ELSE up_channels
    /\ pi' = pi + 1
    /\ UNCHANGED <<ppc, down_channels, presult>>
    /\ ParseFixed

\* The loop over the up channels ends.
from_up_done ==
    /\ ppc = "up" /\ pi = cb.up
    /\ ppc' = "down" /\ pi' = 0
    /\ UNCHANGED <<up_channels, down_channels, presult, reads>>
    /\ ParseFixed

\* One iteration of the loop over the down channels.
from_down_channel ==
    /\ ppc = "down" /\ pi < cb.down
    /\ LET offset == down_offset(pi)
           r == RttChannel_from(pi, "Down", cb.ptr + offset, RecordAt(offset))
       IN
       /\ reads' = reads \o r.read
       /\ down_channels' = IF r.chan.some
                           THEN insert(down_channels, pi, r.chan.val)
                           ELSE down_channels
    /\ pi' = pi + 1
    /\ UNCHANGED <<ppc, up_channels, presult>>
    /\ ParseFixed

\* The loop over the down channels ends: Rtt::from returns Ok(Some(Rtt)).
from_return ==
    /\ ppc = "down" /\ pi = cb.down
    /\ ppc' = "done" /\ presult' = "Ok"
    /\ UNCHANGED <<pi, up_channels, down_channels, reads>>
    /\ ParseFixed

\* core.read_8 fails in read_c_string for the name of the record at hand:
\* Rtt::from returns the probe's error.
from_name_read_fails ==
    /\ \/ ppc = "up" /\ pi < cb.up
       \/ ppc = "down" /\ pi < cb.down
    /\ LET offset == IF ppc = "up" THEN up_offset(pi) ELSE down_offset(pi)
           dir == IF ppc = "up" THEN "Up" ELSE "Down"
           r == RttChannel_from(pi, dir, cb.ptr + offset, RecordAt(offset))
       IN
       /\ r.read # <<>>
       /\ reads' = reads \o r.read
    /\ ppc' = "done" /\ presult' = "Probe"
    /\ UNCHANGED <<pi, up_channels, down_channels>>
    /\ ParseFixed

\* Rtt::from has accepted a control block and enters its channel loops.
InitChannels ==
    /\ AttachOff /\ RingOff /\ HostOff
    /\ memory_map = <<RamRegion, GenericRegion, FlashRegion>>
    /\ zeros \in {{}, {RamLen - 1}}
    /\ cb \in Blocks
    /\ ppc = "up" /\ pi = 0
    /\ up_channels = <<>> /\ down_channels = <<>>
    /\ presult = "none" /\ reads = <<>>
    /\ sptr = 0 /\ sres = NoString /\ reg = NoCall

NextChannels ==
    \/ from_up_channel
    \/ from_up_done
    \/ from_down_channel
    \/ from_return
    \/ from_name_read_fails

SpecChannels == InitChannels /\ [][NextChannels]_vars

----------------------------------------------------------------------------
\* Properties of the channel tables (checked under SpecChannels)

\* The number of up and of down records the loops have gone through.
UpParsed == IF ppc = "up" THEN pi ELSE cb.up
DownParsed == IF ppc = "up" THEN 0 ELSE IF ppc = "down" THEN pi ELSE cb.down

\* Descriptor d is channel n of direction dir, decoded from the record at
\* offset off of the control block.
Carries(d, n, dir, off) ==
    /\ d.number = n /\ d.direction = dir
    /\ d.ptr = cb.ptr + off
    /\ d.buffer_ptr = cb.mem[off].buffer_ptr
    /\ d.size = cb.mem[off].size
    /\ d.flags = cb.mem[off].flags

\* C12: as long as no name read failed, the up table holds exactly the
\* numbers i of the up records gone through whose record, at block offset
\* 24 + 24*i, has a buffer pointer other than 0, the down table likewise for
\* the records at 24 + 24*U + 24*j; each descriptor has its number, its
\* direction, the address block + offset, and the buffer pointer, size and
\* flags of its own record; and a failure comes from the read of a name of a
\* record in use, never from a record with buffer pointer 0.
C12_ChannelTables ==
    (ppc \in {"up", "down", "done"}) =>
        /\ presult # "Probe" =>
              /\ DOMAIN up_channels =
                     {i \in 0..(UpParsed - 1) :
                         cb.mem[24 + 24 * i].buffer_ptr # 0}
              /\ \A i \in DOMAIN up_channels :
                     Carries(up_channels[i], i, "Up", 24 + 24 * i)
              /\ DOMAIN down_channels =
                     {j \in 0..(DownParsed - 1) :
                         cb.mem[24 + 24 * cb.up + 24 * j].buffer_ptr # 0}
              /\ \A j \in DOMAIN down_channels :
                     Carries(down_channels[j], j, "Down",
                             24 + 24 * cb.up + 24 * j)
        /\ presult = "Probe" =>
              /\ reads # <<>>
              /\ \E o \in DOMAIN cb.mem :
                     /\ cb.mem[o].buffer_ptr # 0
                     /\ cb.mem[o].name_ptr = reads[Len(reads)].ptr

\* C12 witness: Rtt::from returned a block of two up records and one down
\* record with up channel 1 and down channel 0 in the tables, up slot 0 being
\* unused and the two records in use differing in size and flags.
C12_Witness ==
    /\ ppc = "done" /\ presult = "Ok"
    /\ cb.up = 2 /\ cb.down = 1
    /\ DOMAIN up_channels = {1} /\ DOMAIN down_channels = {0}
    /\ up_channels[1].size # down_channels[0].size
    /\ up_channels[1].flags # down_channels[0].flags

\* C14: every descriptor in a channel table has a size no larger than the
\* flash or RAM region its buffer pointer lies in.
C14_BufferSizeBound ==
    /\ \A i \in DOMAIN up_channels :
          \A g \in NameRegions(up_channels[i].buffer_ptr) :
              up_channels[i].size <= g.end - g.start
    /\ \A j \in DOMAIN down_channels :
          \A g \in NameRegions(down_channels[j].buffer_ptr) :
              down_channels[j].size <= g.end - g.start

----------------------------------------------------------------------------
\* Channels<T>: the registry of the channels of one direction

\* Largest channel number in a registry.
MaxIndex == 2

\* The channels number k may be: a descriptor as Rtt::from decodes it, of one
\* of two sizes.
RegistryChannels(k) ==
    {[number |-> k, direction |-> "Up", ptr |-> MIN_SIZE + k * SIZE,
      name |-> None, buffer_ptr |-> RamLen - 16, size |-> sz, flags |-> 0] :
        sz \in {16, 32}}

\* The registries Rtt::from may leave: any set of numbers, each with a
\* channel of that number.
Registries ==
    UNION {{t \in [S -> UNION {RegistryChannels(k) : k \in S}] :
               \A k \in S : t[k] \in RegistryChannels(k)} :
           S \in SUBSET (0..MaxIndex)}

\* BTreeMap::get
get(t, k) == IF k \in DOMAIN t THEN Some(t[k]) ELSE None

\* Variant: the entry stays in the map.
remove_keep(t, k) == t

\* BTreeMap::remove: the map without the entry of key k.
remove(t, k) == [x \in DOMAIN t \ {k} |-> t[x]]

\* Channels::iter run to its end: btree_map::Iter yields the entries by
\* ascending key and ChannelsIter::next maps each to (number, channel).
RECURSIVE iter(_)
iter(t) ==
    IF DOMAIN t = {} THEN <<>>
    ELSE LET k == CHOOSE x \in DOMAIN t : \A y \in DOMAIN t : x <= y
         IN  <<<<k, t[k]>>>> \o iter([x \in DOMAIN t \ {k} |-> t[x]])

\* A call on the registry: the operation, its argument, what it returned, the
\* registry before the call, and the numbers taken out so far, in order.
Call(op, n, val, taken) ==
    [op |-> op, n |-> n, val |-> val, before |-> up_channels, taken |-> taken]

\* What a call on the registry leaves alone.
RegistryFixed ==
    /\ UNCHANGED <<memory_map, zeros, cb, ppc, pi, down_channels, presult,
                   reads, sptr, sres>>
    /\ UNCHANGED <<ringVars, avars, hvars>>

\* Channels::len
Channels_len ==
    /\ ppc = "registry"
    /\ reg' = Call("len", 0, Cardinality(DOMAIN up_channels), reg.taken)
    /\ UNCHANGED up_channels
    /\ RegistryFixed

\* Channels::is_empty
Channels_is_empty ==
    /\ ppc = "registry"
    /\ reg' = Call("is_empty", 0, DOMAIN up_channels = {}, reg.taken)
    /\ UNCHANGED up_channels
    /\ RegistryFixed

\* Channels::get(number)
Channels_get(n) ==
    /\ ppc = "registry"
    /\ reg' = Call("get", n, get(up_channels, n), reg.taken)
    /\ UNCHANGED up_channels
    /\ RegistryFixed

\* Channels::take(number)
Channels_take(n) ==
    /\ ppc = "registry"
    /\ reg' = Call("take", n, get(up_channels, n),
                   IF n \in DOMAIN up_channels
                   THEN Append(reg.taken, n) ELSE reg.taken)
    /\ up_channels' = remove(up_channels, n)
    /\ RegistryFixed

\* Channels::iter, run to its end
Channels_iter ==
    /\ ppc = "registry"
    /\ reg' = Call("iter", 0, iter(up_channels), reg.taken)
    /\ UNCHANGED up_channels
    /\ RegistryFixed

\* A registry as Rtt::from left it; no call was made on it yet.
InitRegistry ==
    /\ AttachOff /\ RingOff /\ HostOff
    /\ memory_map = <<>> /\ zeros = {} /\ cb = NoBlock
    /\ ppc = "registry" /\ pi = 0
    /\ presult = "none" /\ reads = <<>>
    /\ sptr = 0 /\ sres = NoString
    /\ up_channels \in Registries
    /\ down_channels = <<>>
    /\ reg = Call("none", 0, None, <<>>)

NextRegistry ==
    \/ Channels_len
    \/ Channels_is_empty
    \/ \E n \in 0..MaxIndex : Channels_get(n)
    \/ \E n \in 0..MaxIndex : Channels_take(n)
    \/ Channels_iter

SpecRegistry == InitRegistry /\ [][NextRegistry]_vars

----------------------------------------------------------------------------
\* Properties of the registry (checked under SpecRegistry)

\* Number n was taken out of the registry.
Taken(n) == \E i \in 1..Len(reg.taken) : reg.taken[i] = n

\* C19: after any sequence of calls, no number was taken out twice and no
\* number taken out is in the registry; take(n) returned channel n if it was
\* there (None otherwise, so None once it was taken), left n absent, len lower
\* by one and every other channel as it was; get, len and iter change
\* nothing; get(n) returns the channel or None (None for a number taken);
\* len is the number of channels; and iter yields every channel of the
\* registry with its number, in strictly ascending order of the numbers.
C19_RegistryHandOff ==
    (ppc = "registry") =>
        /\ \A i, j \in 1..Len(reg.taken) :
              i # j => reg.taken[i] # reg.taken[j]
        /\ \A n \in 0..MaxIndex : Taken(n) => n \notin DOMAIN up_channels
        /\ reg.op = "take" =>
              /\ reg.val = IF reg.n \in DOMAIN reg.before
                           THEN Some(reg.before[reg.n]) ELSE None
              /\ reg.val.some => reg.val.val.number = reg.n
              /\ reg.n \notin DOMAIN up_channels
              /\ Cardinality(DOMAIN up_channels) =
                     Cardinality(DOMAIN reg.before)
                         - (IF reg.val.some THEN 1 ELSE 0)
              /\ \A k \in DOMAIN reg.before \ {reg.n} :
                     k \in DOMAIN up_channels /\ up_channels[k] = reg.before[k]
        /\ reg.op \in {"get", "len", "is_empty", "iter"} =>
              up_channels = reg.before
        /\ reg.op = "get" =>
              /\ reg.val = IF reg.n \in DOMAIN up_channels
                           THEN Some(up_channels[reg.n]) ELSE None
              /\ Taken(reg.n) => reg.val = None
        /\ reg.op = "len" => reg.val = Cardinality(DOMAIN up_channels)
        /\ reg.op = "iter" =>
              /\ Len(reg.val) = Cardinality(DOMAIN up_channels)
              /\ \A i \in 1..Len(reg.val) :
                    /\ reg.val[i][1] \in DOMAIN up_channels
                    /\ reg.val[i][2] = up_channels[reg.val[i][1]]
              /\ \A i \in 1..(Len(reg.val) - 1) :
                    reg.val[i][1] < reg.val[i + 1][1]

\* C19 witness: the second take of a number returned None, with two other
\* channels left in the registry.
C19_Witness ==
    /\ ppc = "registry"
    /\ reg.op = "take" /\ reg.val = None /\ Taken(reg.n)
    /\ Cardinality(DOMAIN up_channels) = 2

----------------------------------------------------------------------------
\* rtthost: the loop of run with a down channel and no up channel, and the
\* thread of stdin_channel. The bytes read from stdin continue the tagged
\* stream behind the bytes the ring holds when rtthost starts.

\* Largest number of bytes stdin().read returns at once.
MaxChunk == 2
\* Largest number of Vec<u8> in flight in the mpsc channel.
MaxPending == 2

\* The bytes in flight in the mpsc channel, in the order sent.
RECURSIVE Flatten(_)
Flatten(q) == IF q = <<>> THEN <<>> ELSE Head(q) \o Flatten(Tail(q))

\* Variant: the whole pending queue is dropped after a write.
drain_all(buf, count) == <<>>

\* down_buf.drain(..count)
drain(buf, count) == SubSeq(buf, count + 1, Len(buf))

\* The stdin thread: stdin().read returned Ok(count) and the bytes are sent.
stdin_read(count) ==
    /\ hpc \in {"recv", "write"} /\ stdin_pc = "reading"
    /\ Len(rx) < MaxPending
    /\ typed + count <= MaxBytes
    /\ rx' = Append(rx, Stream(typed, count))
    /\ typed' = typed + count
    /\ UNCHANGED <<hpc, stdin_pc, down_buf>>
    /\ UNCHANGED <<ringVars, avars, cvars>>

\* The stdin thread: stdin().read returned Err, the thread ends and drops tx.
stdin_fails ==
    /\ hpc \in {"recv", "write"} /\ stdin_pc = "reading"
    /\ stdin_pc' = "ended"
    /\ UNCHANGED <<hpc, rx, down_buf, typed>>
    /\ UNCHANGED <<ringVars, avars, cvars>>

\* run's loop: stdin.try_recv() (one Vec<u8> when one is in flight; Empty and
\* Disconnected are passed over), then the test of down_buf.is_empty().
run_try_recv ==
    /\ hpc = "recv"
    /\ LET bytes == IF rx # <<>> THEN Head(rx) ELSE <<>> IN
       /\ down_buf' = down_buf \o bytes
       /\ hpc' = IF down_buf \o bytes # <<>> THEN "write" ELSE "recv"
    /\ rx' = IF rx # <<>> THEN Tail(rx) ELSE rx
    /\ UNCHANGED <<stdin_pc, typed>>
    /\ UNCHANGED <<ringVars, avars, cvars>>

\* run's loop: rtt.write(down_channel, down_buf.as_mut()) is called.
run_write ==
    /\ hpc = "write"
    /\ write_begin(down_buf)

\* The fetch of the offsets fails in that call.
run_write_fetch_fails ==
    /\ hpc = "write"
    /\ fetch_fails(Len(down_buf), down_buf)

\* run's loop: the call returned Ok(count); count bytes leave down_buf.
run_drain ==
    /\ hpc = "write"
    /\ h.pc = "done" /\ h.result = "Ok"
    /\ LET count == h.total IN
       down_buf' = IF count > 0 THEN drain(down_buf, count) ELSE down_buf
    /\ hpc' = "recv"
    /\ h' = Idle
    /\ xfers' = <<>>
    /\ snap' = <<>>
    /\ UNCHANGED <<stdin_pc, rx, typed>>
    /\ UNCHANGED <<avars, cvars, direction, size, mem, tWrite, tRead, tpc, sent, rcvd>>

\* run's loop: the call returned Err; run returns 1.
run_write_error ==
    /\ hpc = "write"
    /\ h.pc = "done" /\ h.result # "Ok"
    /\ hpc' = "exit"
    /\ UNCHANGED <<stdin_pc, rx, down_buf, typed>>
    /\ UNCHANGED <<ringVars, avars, cvars>>

\* rtthost attached to an Rtt whose one channel is down channel 0, of any
\* size and with any live offsets.
InitHost ==
    /\ AttachOff
    /\ ParseOff
    /\ RingInit({0}, 0..MaxSize, {0})
    /\ direction = "Down"
    /\ hpc = "recv" /\ stdin_pc = "reading" /\ rx = <<>>
    /\ down_buf = <<>> /\ typed = Len(sent)

\* The steps of run's thread.
HostStep ==
    \/ run_try_recv
    \/ run_write
    \/ write_loop
    \/ write_exit
    \/ run_drain
    \/ run_write_error

\* The steps of the target's consumer.
TargetStep == target_load \/ target_advance

NextHost ==
    \/ \E count \in 0..MaxChunk : stdin_read(count)
    \/ stdin_fails
    \/ HostStep
    \/ run_write_fetch_fails
    \/ data_transfer_fails
    \/ write_back_fails
    \/ TargetStep

\* run's thread keeps running, and the target keeps draining the channel.
SpecHost ==
    /\ InitHost /\ [][NextHost]_vars
    /\ WF_vars(HostStep)
    /\ WF_vars(TargetStep)

----------------------------------------------------------------------------
\* Properties of rtthost's down-channel queue (checked under SpecHost)

\* The number of bytes at the front of down_buf that a returned write has
\* counted as written and run has not yet removed.
Counted ==
    IF hpc = "write" /\ h.pc = "done" /\ h.result = "Ok" THEN h.total ELSE 0

\* The stdin bytes not yet written: run's pending queue without the bytes
\* already counted, then the bytes in flight from the stdin thread.
Unwritten == SubSeq(down_buf, Counted + 1, Len(down_buf)) \o Flatten(rx)

\* C23: the bytes written to the down channel followed by the stdin bytes not
\* yet written are the stdin bytes in arrival order, each once; every call
\* of rtt.write is handed the whole pending queue, which is never empty then;
\* the step after a write removes from the front of the queue exactly the
\* count bytes that write reported and touches nothing behind them; and
\* with run's thread running and the target draining the channel, again and
\* again all bytes read from stdin so far have been written (so that every
\* queued byte is eventually written), unless run has returned on an error
\* of rtt.write.
C23_DownQueue ==
    /\ [](sent \o Unwritten = Stream(0, typed))
    /\ []((hpc = "write" /\ h.pc # "idle") =>
             /\ h.op = "write" /\ h.channel = 0
             /\ h.data = down_buf /\ down_buf # <<>>)
    /\ [][(hpc = "write" /\ hpc' = "recv") =>
             /\ down_buf' = SubSeq(down_buf, h.total + 1, Len(down_buf))
             /\ sent' = sent /\ rx' = rx]_vars
    /\ []<>(Len(sent) = typed \/ hpc = "exit")

\* C23 witness: a write was handed a pending queue longer than one read of
\* stdin (bytes that an earlier write had left are handed over again) and
\* returned a count below its length, while the target has consumed bytes
\* and further stdin bytes are in flight.
C23_Witness ==
    /\ hpc = "write" /\ h.pc = "done" /\ h.result = "Ok"
    /\ Len(down_buf) > MaxChunk
    /\ h.total > 0 /\ h.total < Len(down_buf)
    /\ Flatten(rx) # <<>>
    /\ rcvd # <<>>

\* Every byte read from stdin has been written and consumed by the target.
C23_AllWritten ==
    /\ hpc = "recv" /\ down_buf = <<>> /\ rx = <<>>
    /\ typed = MaxBytes /\ Len(sent) = typed
    /\ rcvd = sent

====
